---- MODULE Spec2Model ----
(***************************************************************************)
(* Model of src/core/sol.ts (plug-types): the generator that turns a map    *)
(* of EIP-712 type definitions into struct declarations, type-hash          *)
(* constants, packet-hash / digest / signer getters and documentation.      *)
(*                                                                          *)
(* Strings are modelled as sequences of tokens.  A token is either one      *)
(* character ("[", "]", "3") or an indivisible word ("Person", "Hash").     *)
(* Two strings of the program are equal exactly when their token sequences  *)
(* are equal, because no word of the vocabulary is a concatenation of       *)
(* other tokens.                                                            *)
(***************************************************************************)
EXTENDS Integers, Sequences, FiniteSets, TLC

----------------------------------------------------------------------------
(* Bounds of the model.                                                     *)

\* largest number of types the caller's type map declares
MaxTypes == 3

\* longest input sequence handed to an emitted array getter
MaxLen == 3

----------------------------------------------------------------------------
(* String helpers (String.prototype.includes / slice / replace).            *)

\* typeName.includes('[]')
HasArrayMarker(s) ==
    \E i \in 1..(Len(s) - 1) : s[i] = "[" /\ s[i + 1] = "]"

\* typeName.slice(0, typeName.length - 2)
DropLastTwo(s) ==
    IF Len(s) <= 2 THEN << >> ELSE SubSeq(s, 1, Len(s) - 2)

\* position of the first occurrence of the two-token pattern, 0 when absent
FirstPair(s, a, b) ==
    IF \E i \in 1..(Len(s) - 1) : s[i] = a /\ s[i + 1] = b
    THEN CHOOSE i \in 1..(Len(s) - 1) :
            /\ s[i] = a /\ s[i + 1] = b
            /\ \A j \in 1..(i - 1) : ~(s[j] = a /\ s[j + 1] = b)
    ELSE 0

\* type.replace('[]', ''): only the first occurrence is removed
RemoveFirstArrayMarker(s) ==
    LET i == FirstPair(s, "[", "]")
    IN  IF i = 0 THEN s ELSE SubSeq(s, 1, i - 1) \o SubSeq(s, i + 2, Len(s))

\* position of the first occurrence of a token, 0 when absent
FirstToken(s, t) ==
    IF \E i \in 1..Len(s) : s[i] = t
    THEN CHOOSE i \in 1..Len(s) : s[i] = t /\ \A j \in 1..(i - 1) : s[j] # t
    ELSE 0

\* key.replace('Live', '')
RemoveFirstLive(s) ==
    LET i == FirstToken(s, "Live")
    IN  IF i = 0 THEN s ELSE SubSeq(s, 1, i - 1) \o SubSeq(s, i + 1, Len(s))

----------------------------------------------------------------------------
(* The vocabulary of type names and field types.                            *)

Person == <<"Person">>
Mail == <<"Mail">>
LiveMail == <<"Live", "Mail">>
\* a type name that differs from Mail by the case of its first letter only
LowerMail == <<"mail">>
EIP712Domain == <<"EIP712", "Domain">>
Ghost == <<"Ghost">>

ArrayOf(t) == t \o <<"[", "]">>
FixedArrayOf(t) == t \o <<"[", "3", "]">>

\* the primitive words of the vocabulary (EIP-712 atomic and dynamic types)
PrimitiveWords == {"address", "bool", "bytes", "string", "uint256", "bytes32"}

Digits == {"3"}

Field(n, t) == [name |-> n, type |-> t]

TypeDef(n, fs) == [name |-> n, fields |-> fs]

----------------------------------------------------------------------------
(* abitype/zod TypedDataType: address | bool | bytes<M> | string |          *)
(* (u)int<N> | an array of one of these (one or more [n] / [] groups).      *)

RECURSIVE BracketGroups(_)
BracketGroups(s) ==
    IF s = << >> THEN TRUE
    ELSE IF Len(s) >= 2 /\ s[1] = "[" /\ s[2] = "]"
         THEN BracketGroups(SubSeq(s, 3, Len(s)))
    ELSE IF Len(s) >= 3 /\ s[1] = "[" /\ s[2] \in Digits /\ s[3] = "]"
         THEN BracketGroups(SubSeq(s, 4, Len(s)))
    ELSE FALSE

IsBasicType(t) ==
    /\ Len(t) >= 1
    /\ t[1] \in PrimitiveWords
    /\ BracketGroups(Tail(t))

----------------------------------------------------------------------------
(* Name resolution.                                                         *)

\* config.dangerous.packetHashName: the type name is embedded as it is
\* (get<Type>Hash)
PacketHashName(typeName) == typeName

\* the array branch without the slice: the element keeps its '[]'
GetPacketHashGetterNameUnsliced(useOverloads, typeName) ==
    IF HasArrayMarker(typeName)
    THEN IF useOverloads
         THEN <<"get", "Array", "Hash">>
         ELSE <<"get">> \o PacketHashName(typeName) \o <<"Array", "Hash">>
    ELSE IF useOverloads
         THEN <<"get", "Hash">>
         ELSE <<"get">> \o PacketHashName(typeName) \o <<"Hash">>

GetPacketHashGetterName(useOverloads, typeName) ==
    IF HasArrayMarker(typeName)
    THEN IF useOverloads
         THEN <<"get", "Array", "Hash">>
         ELSE <<"get">> \o PacketHashName(DropLastTwo(typeName))
                        \o <<"Array", "Hash">>
    ELSE IF useOverloads
         THEN <<"get", "Hash">>
         ELSE <<"get">> \o PacketHashName(typeName) \o <<"Hash">>

\* a digest getter name that ignores the naming mode
GetDigestGetterNameBare(useOverloads, typeName) == <<"get", "Digest">>

GetDigestGetterName(useOverloads, typeName) ==
    IF useOverloads
    THEN <<"get", "Digest">>
    ELSE <<"get">> \o PacketHashName(typeName) \o <<"Digest">>

GetSignerGetterName(useOverloads, typeName) ==
    IF useOverloads
    THEN <<"get", "Signer">>
    ELSE <<"get">> \o PacketHashName(typeName) \o <<"Signer">>

\* the capitalised words of the vocabulary: each starts with an upper-case
\* letter and ends with a lower-case letter or a digit
CapitalWords ==
    {"Person", "Mail", "Live", "EIP712", "Domain", "Ghost", "Array", "Group"}

ToUpperCase(w) ==
    CASE w = "Person" -> "PERSON"
      [] w = "Mail" -> "MAIL"
      [] w = "mail" -> "MAIL"
      [] w = "Live" -> "LIVE"
      [] w = "Domain" -> "DOMAIN"
      [] w = "Ghost" -> "GHOST"
      [] w = "Array" -> "ARRAY"
      [] w = "Group" -> "GROUP"
      [] OTHER -> w

\* typeName.replace(/([a-z])([A-Z])/g, '$1_$2')
\*         .replace(/([A-Z])([A-Z])(?=[a-z])/g, '$1_$2')
\*         .replace(/([0-9])([A-Z])/g, '$1_$2').toUpperCase() + '_TYPEHASH'
RECURSIVE UpperSnake(_)
UpperSnake(s) ==
    IF s = << >> THEN << >>
    ELSE IF Len(s) = 1 THEN <<ToUpperCase(s[1])>>
    ELSE IF s[1] \in CapitalWords /\ s[2] \in CapitalWords
         THEN <<ToUpperCase(s[1]), "_">> \o UpperSnake(Tail(s))
         ELSE <<ToUpperCase(s[1])>> \o UpperSnake(Tail(s))

TypeHashName(typeName) == UpperSnake(typeName) \o <<"_TYPEHASH">>

----------------------------------------------------------------------------
(* Generated artifacts.  Every tuple / object the generator creates has an  *)
(* identity (ref): `new Set(...)` compares the entries by identity.         *)

NoName == << >>

HashGetterPath(name) == <<"/hash-getters/">> \o name \o <<".md">>

\* one argument of abi.encode in a packet-hash getter
Encoded(op, callee, fieldName) ==
    [op |-> op, callee |-> callee, field |-> fieldName]

GetEncodedValueFor(useOverloads, field) ==
    IF field.type = <<"bytes">>
    THEN Encoded("keccak256", NoName, field.name)
    ELSE IF field.type = <<"string">>
    THEN Encoded("keccak256(bytes)", NoName, field.name)
    ELSE IF IsBasicType(field.type)
    THEN Encoded("raw", NoName, field.name)
    ELSE Encoded("call", GetPacketHashGetterName(useOverloads, field.type),
                 field.name)

Getter(ref, kind, name, path, param, typeHash, args, callee, payload) ==
    [ref |-> ref, kind |-> kind, name |-> name, path |-> path,
     param |-> param, typeHash |-> typeHash, args |-> args,
     callee |-> callee, payload |-> payload]

\* the function whose body loops over $input and hashes the concatenation
GetArrayPacketHashGetter(useOverloads, typeName, ref) ==
    Getter(ref, "array",
           GetPacketHashGetterName(useOverloads, typeName),
           HashGetterPath(GetPacketHashGetterName(useOverloads, typeName)),
           typeName, NoName, << >>,
           GetPacketHashGetterName(useOverloads, DropLastTwo(typeName)),
           "")

\* the fields encoded last to first
EncodedFieldsReversed(useOverloads, fields) ==
    [i \in 1..Len(fields) |->
        GetEncodedValueFor(useOverloads, fields[Len(fields) + 1 - i])]

\* the arguments of abi.encode after the type hash: fields.map(...)
EncodedFields(useOverloads, fields) ==
    [i \in 1..Len(fields) |-> GetEncodedValueFor(useOverloads, fields[i])]

StructPacketHashGetter(useOverloads, typeName, fields, ref) ==
    Getter(ref, "struct",
           GetPacketHashGetterName(useOverloads, typeName),
           HashGetterPath(GetPacketHashGetterName(useOverloads, typeName)),
           typeName, TypeHashName(typeName),
           EncodedFields(useOverloads, fields),
           NoName, "")

\* no field is taken for an array
IsArrayFieldNever(field) == FALSE

IsArrayField(field) == HasArrayMarker(field.type)

\* fields.forEach(field => if (field.type.includes('[]')) push(array getter))
ArrayFieldGetters(useOverloads, fields, firstRef) ==
    LET arr == SelectSeq(fields, IsArrayField)
    IN  [i \in 1..Len(arr) |->
            GetArrayPacketHashGetter(useOverloads, arr[i].type,
                                     firstRef + i - 1)]

\* getPacketHashGetters: appends to the list it is given and returns it
GetPacketHashGetters(useOverloads, typeName, fields, packetHashGetters, ref) ==
    LET own == IF HasArrayMarker(typeName)
               THEN GetArrayPacketHashGetter(useOverloads, typeName, ref)
               ELSE StructPacketHashGetter(useOverloads, typeName, fields, ref)
    IN  packetHashGetters \o <<own>>
            \o ArrayFieldGetters(useOverloads, fields, ref + 1)

\* the number of tuples getPacketHashGetters creates for one type
CreatedBy(fields) == 1 + Len(SelectSeq(fields, IsArrayField))

----------------------------------------------------------------------------
(* new TypedDataEncoder(config.types): the encoder validates the type map   *)
(* when it is constructed and throws on the first defect it meets.          *)

\* splitArray(type).base: the type with its array specifiers dropped
BaseOfType(t) ==
    LET i == FirstToken(t, "[")
    IN  IF i > 1 /\ BracketGroups(SubSeq(t, i, Len(t)))
        THEN SubSeq(t, 1, i - 1)
        ELSE t

\* getBaseEncoder(baseType) is not null
IsEncoderPrimitive(base) == Len(base) = 1 /\ base[1] \in PrimitiveWords

TypeNames(types) == {types[i].name : i \in 1..Len(types)}

NoError == [kind |-> "none", type |-> NoName, field |-> ""]

Error(kind, type) == [kind |-> kind, type |-> type, field |-> ""]

\* a constructor that lets references to undeclared types through
FieldDefectNoUnknown(types, i, j) ==
    LET f == types[i].fields[j]
        base == BaseOfType(f.type)
    IN  IF \E h \in 1..(j - 1) : types[i].fields[h].name = f.name
        THEN "duplicate variable name"
        ELSE IF base = types[i].name
        THEN "circular type reference"
        ELSE "none"

\* the defect the constructor finds at field j of type i ("none" when sound)
FieldDefect(types, i, j) ==
    LET f == types[i].fields[j]
        base == BaseOfType(f.type)
    IN  IF \E h \in 1..(j - 1) : types[i].fields[h].name = f.name
        THEN "duplicate variable name"
        ELSE IF base = types[i].name
        THEN "circular type reference"
        ELSE IF IsEncoderPrimitive(base)
        THEN "none"
        ELSE IF base \notin TypeNames(types)
        THEN "unknown type"
        ELSE "none"

DefectPositions(types) ==
    {p \in UNION {{<<i, j>> : j \in 1..Len(types[i].fields)} :
                    i \in 1..Len(types)} :
        FieldDefect(types, p[1], p[2]) # "none"}

FirstDefect(types) ==
    CHOOSE p \in DefectPositions(types) :
        \A q \in DefectPositions(types) :
            p[1] < q[1] \/ (p[1] = q[1] /\ p[2] <= q[2])

\* the struct types a type refers to directly (links)
Children(types, name) ==
    LET i == CHOOSE h \in 1..Len(types) : types[h].name = name
    IN  {BaseOfType(types[i].fields[j].type) : j \in 1..Len(types[i].fields)}
            \cap TypeNames(types)

\* types with no parent: the candidates for the primary type
PrimaryTypes(types) ==
    {n \in TypeNames(types) :
        \A m \in TypeNames(types) : n \notin Children(types, m)}

RECURSIVE ReachableFrom(_, _, _)
ReachableFrom(types, frontier, steps) ==
    IF steps = 0 THEN frontier
    ELSE ReachableFrom(types,
            frontier \cup UNION {Children(types, n) : n \in frontier},
            steps - 1)

\* checkCircular: some type reachable from the primary type reaches itself
HasCycle(types) ==
    \E n \in TypeNames(types) :
        n \in ReachableFrom(types, Children(types, n), Len(types))

\* the error the constructor throws, NoError when it returns
EncoderError(types) ==
    IF DefectPositions(types) # {}
    THEN LET p == FirstDefect(types)
         IN  Error(FieldDefect(types, p[1], p[2]),
                   IF FieldDefect(types, p[1], p[2]) = "duplicate variable name"
                   THEN types[p[1]].name
                   ELSE BaseOfType(types[p[1]].fields[p[2]].type))
    ELSE IF PrimaryTypes(types) = {}
    THEN Error("missing primary type", NoName)
    ELSE IF Cardinality(PrimaryTypes(types)) # 1
    THEN Error("ambiguous primary types or unused types", NoName)
    ELSE IF HasCycle(types)
    THEN Error("circular type reference", NoName)
    ELSE NoError

----------------------------------------------------------------------------
(* The configurations the model generates from.                             *)

\* constants.config.types: the EIP712Domain struct _initializeSocket builds
BaselineTypes ==
    << TypeDef(EIP712Domain,
               << Field("name", <<"string">>),
                  Field("version", <<"string">>),
                  Field("chainId", <<"uint256">>),
                  Field("verifyingContract", <<"address">>) >>) >>

\* constants.config: the baseline configuration generate runs first; its
\* naming mode is fixed by the library, not by the caller
\* the name of the envelope paired with EIP712Domain: `Live${key}`
LiveDomain == <<"Live">> \o EIP712Domain

\* a baseline that also declares the signed envelope of its domain type, so
\* that the baseline pass has a digest getter and a signer getter of its own
SignedBaselineTypes ==
    BaselineTypes \o
    << TypeDef(LiveDomain,
               << Field("domain", EIP712Domain),
                  Field("signature", <<"bytes">>) >>) >>

\* constants.config: its type map with or without the envelope, in either
\* naming mode
Baselines ==
    [types : {BaselineTypes, SignedBaselineTypes}, useOverloads : BOOLEAN]

\* the field lists a caller may declare for each type name
FieldListsOf(n) ==
    CASE n = Person ->
            { << Field("name", <<"string">>), Field("wallet", <<"address">>) >>,
              << Field("name", <<"string">>),
                 Field("ids", ArrayOf(<<"uint256">>)) >>,
              << Field("wallet", <<"address">>), Field("friend", Ghost) >> }
      [] n = Mail ->
            { << Field("from", Person), Field("to", Person),
                 Field("contents", <<"string">>) >>,
              << Field("from", Person), Field("to", Person),
                 Field("contents", <<"string">>),
                 Field("signers", ArrayOf(Person)) >>,
              << Field("signers", ArrayOf(Person)),
                 Field("data", <<"bytes">>) >>,
              << Field("trio", FixedArrayOf(Person)),
                 Field("hash", <<"bytes32">>) >>,
              << Field("ids", ArrayOf(<<"uint256">>)),
                 Field("flag", <<"bool">>) >>,
              << Field("inner", LowerMail), Field("contents", <<"string">>) >>,
              << Field("from", Person), Field("signature", <<"bytes">>) >> }
      [] n = LiveMail ->
            { << Field("mail", Mail), Field("signature", <<"bytes">>) >>,
              << Field("mail", Mail), Field("cc", ArrayOf(Person)),
                 Field("signature", <<"bytes">>) >>,
              << Field("signature", <<"bytes">>), Field("mail", Mail) >>,
              << Field("message", Mail), Field("signature", <<"bytes">>) >>,
              << Field("signature", <<"bytes">>) >> }
      [] n = LowerMail ->
            { << Field("name", <<"string">>) >> }
      [] n = EIP712Domain ->
            { << Field("name", <<"string">>) >> }
      [] OTHER -> {}

TypeNamePool == {Person, Mail, LiveMail, LowerMail, EIP712Domain}

TypeDefs ==
    UNION {{TypeDef(n, fs) : fs \in FieldListsOf(n)} : n \in TypeNamePool}

\* type maps: keys are distinct, insertion order is kept
Schemas ==
    UNION {{s \in [1..n -> TypeDefs] :
                \A i, j \in 1..n : i # j => s[i].name # s[j].name} :
           n \in 1..MaxTypes}

Configs == [types : Schemas, useOverloads : BOOLEAN]

----------------------------------------------------------------------------
(* State.                                                                   *)

VARIABLES
    config,      \* the caller's configuration handed to generate
    baseline,    \* constants.config, the baseline configuration
    pc,          \* "call", "forEach", "assemble", "done" or "failed"
    run,         \* which getSolidity call is active: "base" or "ext"
    k,           \* index of the next key of Object.keys(config.types)
    acc,         \* the local accumulators of the active getSolidity call
    nextRef,     \* identity of the next object created
    baseResult,  \* what getSolidity returned for the baseline configuration
    extResult,   \* what getSolidity returned for the caller's configuration
    out,         \* what generate returned
    err,         \* the error generate rejected with
    call,        \* one invocation of an emitted array getter
    socket,      \* the storage of a deployed generated contract
    runs         \* two getSolidity calls in progress at the same time

genVars ==
    <<config, baseline, pc, run, k, acc, nextRef, baseResult, extResult, out,
      err, socket, runs>>

vars ==
    <<config, baseline, pc, run, k, acc, nextRef, baseResult, extResult, out,
      err, call, socket, runs>>

EmptyAcc ==
    [results |-> << >>, typeHashGetters |-> << >>, packetHashGetters |-> << >>,
     digestGetters |-> << >>, signerGetters |-> << >>]

NoResult ==
    [returned |-> FALSE, setup |-> << >>, typeHashGetters |-> << >>,
     packetHashGetters |-> << >>, digestGetters |-> << >>,
     signerGetters |-> << >>]

NoOutput == [returned |-> FALSE, lines |-> << >>, documentation |-> << >>]

NoGetter ==
    Getter(0, "none", NoName, NoName, NoName, NoName, << >>, NoName, "")

IdleCall ==
    [pc |-> "idle", fn |-> NoGetter, input |-> << >>, encoded |-> << >>,
     i |-> 0, length |-> 0, hash |-> << >>, invoked |-> << >>, hashed |-> 0]

\* bytes32(0), the value of a storage slot that was never written
ZeroHash ==
    [by |-> << >>,
     of |-> [name |-> "", version |-> "", chainId |-> "",
             verifyingContract |-> ""]]

\* the contract after deployment: the generated contract has no constructor
NewSocket == [domainHash |-> ZeroHash, initialized |-> FALSE, digests |-> {}]

\* no concurrent calls
NoRuns == << >>

\* the configuration the active getSolidity call was given
RunTypes == IF run = "base" THEN baseline.types ELSE config.types

RunOverloads ==
    IF run = "base" THEN baseline.useOverloads ELSE config.useOverloads

----------------------------------------------------------------------------
(* getSolidity.                                                             *)

\* every key counts as paired
TypeKeysAll(types) == TypeNames(types)

\* keys for which the map also declares `Live${key}`
TypeKeys(types) ==
    {n \in TypeNames(types) : (<<"Live">> \o n) \in TypeNames(types)}

\* keys for which the map also declares key.replace('Live', '')
SignerKeys(types) ==
    {n \in TypeNames(types) : RemoveFirstLive(n) \in TypeNames(types)}

\* [...new Set(list)]: the first occurrence of every object, in order
RECURSIVE UniqueFrom(_, _)
UniqueFrom(list, seen) ==
    IF list = << >> THEN << >>
    ELSE IF Head(list).ref \in seen
         THEN UniqueFrom(Tail(list), seen)
         ELSE <<Head(list)>> \o UniqueFrom(Tail(list), seen \cup {Head(list).ref})

\* no deduplication: the list as it was accumulated
UniqueKeepsAll(list) == list

Unique(list) == UniqueFrom(list, {})

TypeDoc(ref, typeName) ==
    [ref |-> ref, path |-> <<"/base-types/">> \o typeName \o <<".md">>,
     about |-> typeName]

\* a struct declaration whose members lose the array marker
SetupElementTypes(typeName, fields) ==
    [struct |-> [name |-> typeName,
                 members |-> [i \in 1..Len(fields) |->
                    Field(fields[i].name,
                          RemoveFirstArrayMarker(fields[i].type))]],
     typeHash |-> [name |-> TypeHashName(typeName), of |-> typeName]]

Setup(typeName, fields) ==
    [struct |-> [name |-> typeName, members |-> fields],
     typeHash |-> [name |-> TypeHashName(typeName), of |-> typeName]]

DigestGetter(useOverloads, typeName, ref) ==
    Getter(ref, "digest",
           GetDigestGetterName(useOverloads, typeName),
           <<"/digest-getters/">>
               \o GetDigestGetterName(useOverloads, typeName) \o <<".md">>,
           typeName, NoName, << >>,
           GetPacketHashGetterName(useOverloads, typeName), "")

HasSignature(fields) == \E i \in 1..Len(fields) : fields[i].name = "signature"

\* the first declared field, whatever its name
DataFieldNameFirst(fields) == fields[1].name

\* type.find(field => field.name !== 'signature')?.name
DataFieldName(fields) ==
    IF \E i \in 1..Len(fields) : fields[i].name # "signature"
    THEN fields[CHOOSE i \in 1..Len(fields) :
                    /\ fields[i].name # "signature"
                    /\ \A j \in 1..(i - 1) : fields[j].name = "signature"].name
    ELSE "undefined"

SignerGetter(useOverloads, typeName, fields, ref) ==
    Getter(ref, "signer",
           GetSignerGetterName(useOverloads, typeName),
           <<"/signer-getters/">>
               \o GetSignerGetterName(useOverloads, typeName) \o <<".md">>,
           typeName, NoName, << >>,
           GetDigestGetterName(useOverloads, <<DataFieldName(fields)>>),
           DataFieldName(fields))

\* a callee that returns copies: the caller appends new objects
PushSpreadCopies(useOverloads, typeName, fields, packetHashGetters, ref) ==
    LET returned == GetPacketHashGetters(useOverloads, typeName, fields,
                                         packetHashGetters, ref)
    IN  returned \o [i \in 1..Len(returned) |->
                        [returned[i] EXCEPT !.ref = @ + 1000]]

\* packetHashGetters.push(...getPacketHashGetters(.., packetHashGetters)):
\* the callee appends to the accumulator and returns it, and the caller
\* appends every element of the returned list to the same accumulator
PushSpread(useOverloads, typeName, fields, packetHashGetters, ref) ==
    LET returned == GetPacketHashGetters(useOverloads, typeName, fields,
                                         packetHashGetters, ref)
    IN  returned \o returned

\* the accumulators after the forEach callback has run for one type
AfterType(useOverloads, types, t, a, ref) ==
    LET created == CreatedBy(t.fields)
    IN  [results |-> Append(a.results, Setup(t.name, t.fields)),
         typeHashGetters |-> Append(a.typeHashGetters, TypeDoc(ref, t.name)),
         packetHashGetters |->
            PushSpread(useOverloads, t.name, t.fields, a.packetHashGetters,
                       ref + 1),
         digestGetters |->
            IF t.name \in TypeKeys(types)
            THEN Append(a.digestGetters,
                        DigestGetter(useOverloads, t.name, ref + created + 1))
            ELSE a.digestGetters,
         signerGetters |->
            IF HasSignature(t.fields) /\ t.name \in SignerKeys(types)
            THEN Append(a.signerGetters,
                        SignerGetter(useOverloads, t.name, t.fields,
                                     ref + created + 2))
            ELSE a.signerGetters]

\* the value getSolidity returns
Returned(a) ==
    [returned |-> TRUE,
     setup |-> a.results,
     typeHashGetters |-> Unique(a.typeHashGetters),
     packetHashGetters |-> Unique(a.packetHashGetters),
     digestGetters |-> Unique(a.digestGetters),
     signerGetters |-> Unique(a.signerGetters)]

\* getSolidity is entered and the encoder accepts the type map
GetSolidityBegin ==
    /\ pc = "call"
    /\ EncoderError(RunTypes) = NoError
    /\ acc' = EmptyAcc
    /\ k' = 1
    /\ pc' = "forEach"
    /\ UNCHANGED <<config, baseline, run, nextRef, baseResult, extResult, out,
                   err, call, socket,
                   runs>>

\* the failure is swallowed and generate assembles what it has
EncoderSwallowed ==
    /\ pc = "call"
    /\ EncoderError(RunTypes) # NoError
    /\ err' = EncoderError(RunTypes)
    /\ pc' = "assemble"
    /\ UNCHANGED <<config, baseline, run, k, acc, nextRef, baseResult,
                   extResult, out, call, socket,
                   runs>>

\* getSolidity is entered and the encoder's constructor throws: generate
\* rejects and returns nothing
EncoderThrows ==
    /\ pc = "call"
    /\ EncoderError(RunTypes) # NoError
    /\ err' = EncoderError(RunTypes)
    /\ pc' = "failed"
    /\ UNCHANGED <<config, baseline, run, k, acc, nextRef, baseResult,
                   extResult, out, call, socket,
                   runs>>

\* one iteration of Object.keys(config.types).forEach
ProcessType ==
    /\ pc = "forEach"
    /\ k <= Len(RunTypes)
    /\ acc' = AfterType(RunOverloads, RunTypes, RunTypes[k], acc, nextRef)
    /\ nextRef' = nextRef + CreatedBy(RunTypes[k].fields) + 3
    /\ k' = k + 1
    /\ UNCHANGED <<config, baseline, pc, run, baseResult, extResult, out, err,
                   call, socket,
                   runs>>

\* the loop is over: deduplicate and return to generate
GetSolidityReturn ==
    /\ pc = "forEach"
    /\ k > Len(RunTypes)
    /\ IF run = "base"
       THEN /\ baseResult' = Returned(acc)
            /\ run' = "ext"
            /\ pc' = "call"
            /\ UNCHANGED extResult
       ELSE /\ extResult' = Returned(acc)
            /\ pc' = "assemble"
            /\ UNCHANGED <<run, baseResult>>
    /\ acc' = EmptyAcc
    /\ UNCHANGED <<config, baseline, k, nextRef, out, err, call, socket,
                   runs>>

----------------------------------------------------------------------------
(* generate: the bundle and the documentation list.                         *)

Line(section, name, members, getter) ==
    [section |-> section, name |-> name, members |-> members,
     getter |-> getter]

Boilerplate(section) == Line(section, NoName, << >>, NoGetter)

Doc(path) == [path |-> path]

StructLines(setup) ==
    [i \in 1..Len(setup) |->
        Line("struct", setup[i].struct.name, setup[i].struct.members, NoGetter)]

TypeHashLines(setup) ==
    [i \in 1..Len(setup) |->
        Line("typeHash", setup[i].typeHash.name, << >>, NoGetter)]

GetterLines(section, getters) ==
    [i \in 1..Len(getters) |->
        Line(section, getters[i].name, << >>, getters[i])]

\* _initializeSocket: domainHash = <packet-hash getter of EIP712Domain>(...)
InitializeSocket(useOverloads) ==
    Line("initializeSocket", NoName, << >>,
         Getter(0, "init", <<"_initializeSocket">>, NoName, EIP712Domain,
                NoName, << >>,
                GetPacketHashGetterName(useOverloads, EIP712Domain), ""))

Docs(list) == [i \in 1..Len(list) |-> Doc(list[i].path)]

\* an assembly that puts the caller's artifacts before the baseline's
GeneratedExtensionFirst(cfg, base, ext) ==
    LET combinedSetup == ext.setup \o base.setup
        combinedTypeHashGetters == ext.typeHashGetters \o base.typeHashGetters
        combinedPacketHashGetters ==
            ext.packetHashGetters \o base.packetHashGetters
    IN  [returned |-> TRUE,
         lines |->
            <<Boilerplate("header")>>
            \o StructLines(combinedSetup)
            \o <<Boilerplate("contract")>>
            \o TypeHashLines(combinedSetup)
            \o <<InitializeSocket(cfg.useOverloads)>>
            \o GetterLines("packetHashGetter", combinedPacketHashGetters)
            \o GetterLines("digestGetter", ext.digestGetters)
            \o GetterLines("signerGetter", ext.signerGetters)
            \o <<Boilerplate("close")>>,
         documentation |->
            Docs(combinedTypeHashGetters)
            \o Docs(combinedPacketHashGetters)
            \o Docs(ext.digestGetters)
            \o Docs(ext.signerGetters)]

\* an assembly that also takes the digest and signer getters of the baseline
GeneratedWithBaselineSigners(cfg, base, ext) ==
    LET combinedSetup == base.setup \o ext.setup
        combinedTypeHashGetters == base.typeHashGetters \o ext.typeHashGetters
        combinedPacketHashGetters ==
            base.packetHashGetters \o ext.packetHashGetters
        combinedDigestGetters == base.digestGetters \o ext.digestGetters
        combinedSignerGetters == base.signerGetters \o ext.signerGetters
    IN  [returned |-> TRUE,
         lines |->
            <<Boilerplate("header")>>
            \o StructLines(combinedSetup)
            \o <<Boilerplate("contract")>>
            \o TypeHashLines(combinedSetup)
            \o <<InitializeSocket(cfg.useOverloads)>>
            \o GetterLines("packetHashGetter", combinedPacketHashGetters)
            \o GetterLines("digestGetter", combinedDigestGetters)
            \o GetterLines("signerGetter", combinedSignerGetters)
            \o <<Boilerplate("close")>>,
         documentation |->
            Docs(combinedTypeHashGetters)
            \o Docs(combinedPacketHashGetters)
            \o Docs(combinedDigestGetters)
            \o Docs(combinedSignerGetters)]

\* an assembly that puts the digest getters before the packet-hash getters
GeneratedDigestFirst(cfg, base, ext) ==
    LET combinedSetup == base.setup \o ext.setup
        combinedTypeHashGetters == base.typeHashGetters \o ext.typeHashGetters
        combinedPacketHashGetters ==
            base.packetHashGetters \o ext.packetHashGetters
    IN  [returned |-> TRUE,
         lines |->
            <<Boilerplate("header")>>
            \o StructLines(combinedSetup)
            \o <<Boilerplate("contract")>>
            \o TypeHashLines(combinedSetup)
            \o <<InitializeSocket(cfg.useOverloads)>>
            \o GetterLines("digestGetter", ext.digestGetters)
            \o GetterLines("packetHashGetter", combinedPacketHashGetters)
            \o GetterLines("signerGetter", ext.signerGetters)
            \o <<Boilerplate("close")>>,
         documentation |->
            Docs(combinedTypeHashGetters)
            \o Docs(combinedPacketHashGetters)
            \o Docs(ext.digestGetters)
            \o Docs(ext.signerGetters)]

Generated(cfg, base, ext) ==
    LET combinedSetup == base.setup \o ext.setup
        combinedTypeHashGetters == base.typeHashGetters \o ext.typeHashGetters
        combinedPacketHashGetters ==
            base.packetHashGetters \o ext.packetHashGetters
    IN  [returned |-> TRUE,
         lines |->
            <<Boilerplate("header")>>
            \o StructLines(combinedSetup)
            \o <<Boilerplate("contract")>>
            \o TypeHashLines(combinedSetup)
            \o <<InitializeSocket(cfg.useOverloads)>>
            \o GetterLines("packetHashGetter", combinedPacketHashGetters)
            \o GetterLines("digestGetter", ext.digestGetters)
            \o GetterLines("signerGetter", ext.signerGetters)
            \o <<Boilerplate("close")>>,
         documentation |->
            Docs(combinedTypeHashGetters)
            \o Docs(combinedPacketHashGetters)
            \o Docs(ext.digestGetters)
            \o Docs(ext.signerGetters)]

Assemble ==
    /\ pc = "assemble"
    /\ out' = Generated(config, baseResult, extResult)
    /\ pc' = "done"
    /\ UNCHANGED <<config, baseline, run, k, acc, nextRef, baseResult,
                   extResult, err, call, socket,
                   runs>>

----------------------------------------------------------------------------
Init ==
    /\ config \in Configs
    /\ baseline \in Baselines
    /\ pc = "call"
    /\ run = "base"
    /\ k = 1
    /\ acc = EmptyAcc
    /\ nextRef = 1
    /\ baseResult = NoResult
    /\ extResult = NoResult
    /\ out = NoOutput
    /\ err = NoError
    /\ call = IdleCall
    /\ socket = NewSocket
    /\ runs = NoRuns

Next ==
    \/ GetSolidityBegin
    \/ EncoderThrows
    \/ ProcessType
    \/ GetSolidityReturn
    \/ Assemble

Spec == Init /\ [][Next]_vars

----------------------------------------------------------------------------
(* One invocation of an emitted array getter (the Solidity of its body):    *)
(*     bytes memory encoded; uint256 i; uint256 length = $input.length;     *)
(*     for (i; i < length;) {                                               *)
(*         encoded = bytes.concat(encoded, <element getter>($input[i]));    *)
(*         unchecked { i++; } }                                             *)
(*     $hash = keccak256(encoded);                                          *)

\* the values an entry of $input may have
Words == {"zero", "one"}

Inputs == UNION {[1..n -> Words] : n \in 0..MaxLen}

\* the array types an array getter is generated for
ArrayTypes ==
    {ArrayOf(Person), ArrayOf(Mail), ArrayOf(<<"uint256">>),
     ArrayOf(ArrayOf(Person))}

\* the 32 bytes a packet-hash getter returns for a value
ElementResult(getterName, value) == [by |-> getterName, of |-> value]

Keccak256(bytes) == [keccak256 |-> bytes]

\* a loop that stops one entry early
LoopSkipsLast(c) == c.i + 1 < c.length

\* the loop condition: i < length
LoopContinues(c) == c.i < c.length

\* the loop body: one call of the element getter on $input[i], then i++
LoopBody(c) ==
    [c EXCEPT !.encoded = c.encoded \o
                    <<ElementResult(c.fn.callee, c.input[c.i + 1])>>,
              !.invoked = Append(c.invoked, <<c.fn.callee, c.i>>),
              !.i = c.i + 1]

\* $hash = keccak256(encoded)
HashEncoded(c) ==
    [c EXCEPT !.hash = Keccak256(c.encoded),
              !.hashed = c.hashed + 1,
              !.pc = "returned"]

ArrayGetterLoop ==
    /\ call.pc = "loop"
    /\ LoopContinues(call)
    /\ call' = LoopBody(call)
    /\ UNCHANGED genVars

ArrayGetterHash ==
    /\ call.pc = "loop"
    /\ ~LoopContinues(call)
    /\ call' = HashEncoded(call)
    /\ UNCHANGED genVars

\* an array getter is generated and invoked on some input
InitArrayGetter ==
    /\ \E ov \in BOOLEAN, t \in ArrayTypes, input \in Inputs :
        /\ config = [types |-> << >>, useOverloads |-> ov]
        /\ call = [pc |-> "loop",
                   fn |-> GetArrayPacketHashGetter(ov, t, 1),
                   input |-> input, encoded |-> << >>, i |-> 0,
                   length |-> Len(input), hash |-> << >>,
                   invoked |-> << >>, hashed |-> 0]
    /\ baseline = [types |-> BaselineTypes, useOverloads |-> FALSE]
    /\ pc = "done"
    /\ run = "ext"
    /\ k = 1
    /\ acc = EmptyAcc
    /\ nextRef = 2
    /\ baseResult = NoResult
    /\ extResult = NoResult
    /\ out = NoOutput
    /\ err = NoError
    /\ socket = NewSocket
    /\ runs = NoRuns

NextArrayGetter == ArrayGetterLoop \/ ArrayGetterHash

SpecArrayGetter == InitArrayGetter /\ [][NextArrayGetter]_vars

----------------------------------------------------------------------------
(* The generated contract at run time.  Its storage is                      *)
(*     bytes32 public domainHash;                                           *)
(* written by the internal function _initializeSocket($name, $version) and  *)
(* read by every digest getter:                                             *)
(*     $digest = keccak256(abi.encodePacked("\x19\x01", domainHash,         *)
(*                                          <packet-hash getter>($input))); *)
(* The contract that inherits from it decides when _initializeSocket runs.  *)

\* domainHash = <EIP712Domain getter>(EIP712Domain({name, version, ...}))
InitializeSocketBody(s, fn, name, version) ==
    [s EXCEPT !.domainHash =
                ElementResult(fn.callee,
                              [name |-> name, version |-> version,
                               chainId |-> "block.chainid",
                               verifyingContract |-> "address(this)"]),
              !.initialized = TRUE]

\* the body of an emitted digest getter
DigestBody(s, fn, input) ==
    Keccak256(<<"1901", s.domainHash,
                ElementResult(fn.callee,
                              [name |-> input, version |-> "",
                               chainId |-> "", verifyingContract |-> ""])>>)

\* the inheriting contract calls _initializeSocket
SocketInitialize ==
    /\ \E name \in Words, version \in Words :
        socket' = InitializeSocketBody(
                    socket, InitializeSocket(config.useOverloads).getter,
                    name, version)
    /\ UNCHANGED <<config, baseline, pc, run, k, acc, nextRef, baseResult,
                   extResult, out, err, call, runs>>

\* anyone calls the digest getter of Mail; the result is remembered together
\* with whether the contract had been initialized
SocketDigest ==
    /\ \E input \in Words :
        socket' = [socket EXCEPT !.digests = @ \cup
                    {[input |-> input,
                      initialized |-> socket.initialized,
                      digest |-> DigestBody(
                            socket,
                            DigestGetter(config.useOverloads, Mail, 1),
                            input)]}]
    /\ UNCHANGED <<config, baseline, pc, run, k, acc, nextRef, baseResult,
                   extResult, out, err, call, runs>>

\* a generated contract is deployed
InitSocket ==
    /\ \E ov \in BOOLEAN : config = [types |-> << >>, useOverloads |-> ov]
    /\ baseline = [types |-> BaselineTypes, useOverloads |-> FALSE]
    /\ pc = "done"
    /\ run = "ext"
    /\ k = 1
    /\ acc = EmptyAcc
    /\ nextRef = 2
    /\ baseResult = NoResult
    /\ extResult = NoResult
    /\ out = NoOutput
    /\ err = NoError
    /\ call = IdleCall
    /\ socket = NewSocket
    /\ runs = NoRuns

NextSocket == SocketInitialize \/ SocketDigest

SpecSocket == InitSocket /\ [][NextSocket]_vars

----------------------------------------------------------------------------
(* Two getSolidity calls whose steps interleave.  Everything a call         *)
(* accumulates into is declared inside its own body (results,               *)
(* typeHashGetters, packetHashGetters, digestGetters, signerGetters); the   *)
(* only thing the calls have in common is the heap that gives every new     *)
(* object its identity.                                                     *)

\* type maps the encoder accepts: the baseline, and Person with a Mail that
\* refers to it
RunSchemas ==
    {BaselineTypes} \cup
    {s \in Schemas : /\ Len(s) = 2
                     /\ s[1].name = Person
                     /\ s[2].name = Mail
                     /\ EncoderError(s) = NoError}

RunConfigs == [types : RunSchemas, useOverloads : BOOLEAN]

NewRun(cfg) ==
    [config |-> cfg, pc |-> "call", k |-> 1, acc |-> EmptyAcc,
     created |-> {}, result |-> NoResult]

\* accumulators at module level: every call accumulates into the first
\* call's lists
SharedAcc(rs, r) == rs[1].acc

\* the accumulators of call r: the consts declared in its own body
OwnAcc(rs, r) == rs[r].acc

RunBegin(r) ==
    /\ runs[r].pc = "call"
    /\ EncoderError(runs[r].config.types) = NoError
    /\ runs' = [runs EXCEPT ![r].pc = "forEach", ![r].k = 1,
                            ![r].acc = EmptyAcc]
    /\ UNCHANGED <<config, baseline, pc, run, k, acc, nextRef, baseResult,
                   extResult, out, err, call, socket>>

RunProcessType(r) ==
    LET cfg == runs[r].config
        t == cfg.types[runs[r].k]
    IN  /\ runs[r].pc = "forEach"
        /\ runs[r].k <= Len(cfg.types)
        /\ runs' = [runs EXCEPT
                ![r].acc = AfterType(cfg.useOverloads, cfg.types, t,
                                     OwnAcc(runs, r), nextRef),
                ![r].created = @ \cup
                    (nextRef..(nextRef + CreatedBy(t.fields) + 2)),
                ![r].k = @ + 1]
        /\ nextRef' = nextRef + CreatedBy(t.fields) + 3
        /\ UNCHANGED <<config, baseline, pc, run, k, acc, baseResult,
                       extResult, out, err, call, socket>>

RunReturn(r) ==
    /\ runs[r].pc = "forEach"
    /\ runs[r].k > Len(runs[r].config.types)
    /\ runs' = [runs EXCEPT ![r].pc = "returned",
                            ![r].result = Returned(OwnAcc(runs, r))]
    /\ UNCHANGED <<config, baseline, pc, run, k, acc, nextRef, baseResult,
                   extResult, out, err, call, socket>>

InitRuns ==
    /\ \E c1 \in RunConfigs, c2 \in RunConfigs :
        runs = <<NewRun(c1), NewRun(c2)>>
    /\ config = [types |-> << >>, useOverloads |-> FALSE]
    /\ baseline = [types |-> BaselineTypes, useOverloads |-> FALSE]
    /\ pc = "done"
    /\ run = "ext"
    /\ k = 1
    /\ acc = EmptyAcc
    /\ nextRef = 1
    /\ baseResult = NoResult
    /\ extResult = NoResult
    /\ out = NoOutput
    /\ err = NoError
    /\ call = IdleCall
    /\ socket = NewSocket

NextRuns == \E r \in {1, 2} : RunBegin(r) \/ RunProcessType(r) \/ RunReturn(r)

SpecRuns == InitRuns /\ [][NextRuns]_vars

----------------------------------------------------------------------------
(* Vocabulary of the properties: what the specification calls an array     *)
(* type, its element type, and the accessor names it prescribes.            *)

\* t is "array of T": it ends with a bracket group, [] or [n]
IsArrayType(t) ==
    /\ Len(t) >= 3
    /\ t[Len(t)] = "]"
    /\ \/ t[Len(t) - 1] = "["
       \/ (Len(t) >= 4 /\ t[Len(t) - 1] \in Digits /\ t[Len(t) - 2] = "[")

\* the T of an array type
ElementTypeOf(t) ==
    IF t[Len(t) - 1] = "["
    THEN SubSeq(t, 1, Len(t) - 2)
    ELSE SubSeq(t, 1, Len(t) - 3)

IsDynamicArrayType(t) == IsArrayType(t) /\ t[Len(t) - 1] = "["

ExpectedArrayGetterName(overloaded, element) ==
    IF overloaded
    THEN <<"get", "Array", "Hash">>
    ELSE <<"get">> \o element \o <<"Array", "Hash">>

ExpectedHashGetterName(overloaded, type) ==
    IF overloaded
    THEN <<"get", "Hash">>
    ELSE <<"get">> \o type \o <<"Hash">>

\* the packet-hash getter the specification assigns to a type
OwnGetterName(overloaded, type) ==
    IF IsDynamicArrayType(type)
    THEN ExpectedArrayGetterName(overloaded, ElementTypeOf(type))
    ELSE ExpectedHashGetterName(overloaded, type)

FieldsIn(types) ==
    UNION {{types[i].fields[j] : j \in 1..Len(types[i].fields)} :
           i \in 1..Len(types)}

FieldsOf(types, name) ==
    types[CHOOSE i \in 1..Len(types) : types[i].name = name].fields

Elements(list) == {list[i] : i \in 1..Len(list)}

Terminated == pc \in {"done", "failed"}

----------------------------------------------------------------------------
(* C1: when two or more distinct types each declare a field of type T[],    *)
(* the packet-hash getter list one generation pass returns holds exactly    *)
(* one entry whose name is the array getter name of T.                      *)

TypesWithArrayOf(types, element) ==
    {i \in 1..Len(types) :
        \E j \in 1..Len(types[i].fields) :
            types[i].fields[j].type = ArrayOf(element)}

SharedElementTypes(types) ==
    {ElementTypeOf(f.type) : f \in {g \in FieldsIn(types) :
                                        IsDynamicArrayType(g.type)}}

NamedCount(getters, name) ==
    Cardinality({j \in 1..Len(getters) : getters[j].name = name})

C1_OneArrayGetterPerElementType ==
    extResult.returned =>
        \A element \in SharedElementTypes(config.types) :
            Cardinality(TypesWithArrayOf(config.types, element)) >= 2 =>
                NamedCount(extResult.packetHashGetters,
                           ExpectedArrayGetterName(config.useOverloads,
                                                   element)) = 1

----------------------------------------------------------------------------
(* C2: a field that references a type which is neither a primitive nor a    *)
(* key of the merged schema makes generation fail, and nothing is emitted.  *)

MergedNames == TypeNames(baseline.types) \cup TypeNames(config.types)

\* the fields of the caller's types that reference an undeclared type
UnknownReferences ==
    {f \in FieldsIn(config.types) :
        /\ ~IsEncoderPrimitive(BaseOfType(f.type))
        /\ BaseOfType(f.type) \notin MergedNames}

----------------------------------------------------------------------------
(* C3: a caller type named like a baseline type makes generate fail, and a  *)
(* returned bundle holds at most one struct declaration and one type-hash   *)
(* constant per type name.                                                  *)

Collides == TypeNames(config.types) \cap TypeNames(baseline.types) # {}

C3_CollisionRejected ==
    /\ (Collides /\ Terminated) => pc = "failed"
    /\ out.returned =>
            \A i, j \in 1..Len(out.lines) :
                (/\ i # j
                 /\ out.lines[i].section \in {"struct", "typeHash"}
                 /\ out.lines[i].section = out.lines[j].section)
                    => out.lines[i].name # out.lines[j].name

----------------------------------------------------------------------------
(* C4: generation is all or nothing: until generate returns, no bundle and  *)
(* no documentation exist for the caller; a failure leaves none; and what   *)
(* is returned covers every type of the baseline and of the caller's map.   *)

SectionNames(lines, section) ==
    LET picked == SelectSeq(lines, LAMBDA l : l.section = section)
    IN  [i \in 1..Len(picked) |-> picked[i].name]

AllTypes == baseline.types \o config.types

Covers(result, types) ==
    /\ Len(result.setup) = Len(types)
    /\ Len(result.typeHashGetters) = Len(types)
    /\ \A i \in 1..Len(types) :
        /\ result.setup[i].struct.name = types[i].name
        /\ result.setup[i].typeHash.of = types[i].name
        /\ result.typeHashGetters[i].about = types[i].name
        /\ \E g \in Elements(result.packetHashGetters) :
                g.kind = "struct" /\ g.param = types[i].name

C4_AllOrNothing ==
    /\ pc # "done" => out = NoOutput
    /\ pc = "failed" => ~extResult.returned
    /\ baseResult.returned => Covers(baseResult, baseline.types)
    /\ extResult.returned => Covers(extResult, config.types)
    /\ out.returned =>
        /\ pc = "done"
        /\ SectionNames(out.lines, "struct")
                = [i \in 1..Len(AllTypes) |-> AllTypes[i].name]
        /\ SectionNames(out.lines, "typeHash")
                = [i \in 1..Len(AllTypes) |-> TypeHashName(AllTypes[i].name)]
        /\ \A i \in 1..Len(AllTypes) :
            /\ \E l \in Elements(out.lines) :
                    /\ l.section = "packetHashGetter"
                    /\ l.getter.kind = "struct"
                    /\ l.getter.param = AllTypes[i].name
            /\ \E d \in Elements(out.documentation) :
                    d.path = <<"/base-types/">> \o AllTypes[i].name \o <<".md">>

\* the caller's run fails after the baseline run has built its artifacts
C4_Witness ==
    /\ pc = "failed"
    /\ run = "ext"
    /\ baseResult.returned
    /\ Len(baseResult.packetHashGetters) > 0
    /\ out = NoOutput

----------------------------------------------------------------------------
(* C6: every field whose type is an array of T has the array getter for T   *)
(* in the packet-hash getter list the pass returns.                         *)

C6_EveryArrayFieldHasGetter ==
    extResult.returned =>
        \A f \in FieldsIn(config.types) :
            IsArrayType(f.type) =>
                \E g \in Elements(extResult.packetHashGetters) :
                    /\ g.kind = "array"
                    /\ g.name = ExpectedArrayGetterName(config.useOverloads,
                                                        ElementTypeOf(f.type))

----------------------------------------------------------------------------
(* C7: bytes and string fields are encoded as the hash of the value,        *)
(* fixed-width primitives as the value itself, and references to composite  *)
(* types and arrays of any type as a call of the type's packet-hash getter. *)

IsDynamicPrimitive(t) == t \in {<<"bytes">>, <<"string">>}

IsFixedWidthPrimitive(t) ==
    Len(t) = 1 /\ t[1] \in (PrimitiveWords \ {"bytes", "string"})

FollowsEncodingRule(overloaded, field, encoded) ==
    /\ encoded.field = field.name
    /\ IF IsDynamicPrimitive(field.type)
       THEN encoded.op \in {"keccak256", "keccak256(bytes)"}
       ELSE IF IsFixedWidthPrimitive(field.type)
       THEN encoded.op = "raw"
       ELSE /\ encoded.op = "call"
            /\ (IsDynamicArrayType(field.type) \/ ~IsArrayType(field.type))
                    => encoded.callee = OwnGetterName(overloaded, field.type)

C7_EncodingRule ==
    pc = "forEach" =>
        \A g \in Elements(acc.packetHashGetters) :
            g.kind = "struct" =>
                \A i \in 1..Len(g.args) :
                    FollowsEncodingRule(RunOverloads,
                                        FieldsOf(RunTypes, g.param)[i],
                                        g.args[i])

----------------------------------------------------------------------------
(* C8: the packet-hash getter of a non-array type hashes the type's own     *)
(* type-hash constant first and then one encoded value per declared field,  *)
(* in declared order.                                                       *)

InDeclaredOrder(overloaded, types, results, g) ==
    LET fields == FieldsOf(types, g.param)
    IN  /\ \E r \in Elements(results) :
                r.struct.name = g.param /\ r.typeHash.name = g.typeHash
        /\ Len(g.args) = Len(fields)
        /\ \A i \in 1..Len(fields) :
                /\ g.args[i].field = fields[i].name
                /\ g.args[i] = GetEncodedValueFor(overloaded, fields[i])

C8_FieldOrder ==
    /\ pc = "forEach" =>
        \A g \in Elements(acc.packetHashGetters) :
            g.kind = "struct" =>
                InDeclaredOrder(RunOverloads, RunTypes, acc.results, g)
    /\ extResult.returned =>
        \A g \in Elements(extResult.packetHashGetters) :
            g.kind = "struct" =>
                InDeclaredOrder(config.useOverloads, config.types,
                                extResult.setup, g)

C8_Witness ==
    /\ extResult.returned
    /\ \E g \in Elements(extResult.packetHashGetters) :
        /\ g.kind = "struct"
        /\ Len(g.args) >= 3
        /\ g.args[1].op = "call"
        /\ g.args[3].op = "keccak256(bytes)"

----------------------------------------------------------------------------
(* C9: the emitted array getter calls the element type's packet-hash getter *)
(* on every entry in index order, concatenates the results and hashes the   *)
(* concatenation once; for an empty input it returns the hash of the empty  *)
(* byte string.                                                             *)

C9_ArrayEncoder ==
    LET own == OwnGetterName(config.useOverloads,
                             ElementTypeOf(call.fn.param))
    IN  /\ call.pc = "loop" => call.hashed = 0
        /\ call.pc = "returned" =>
            /\ call.invoked =
                    [i \in 1..Len(call.input) |-> <<own, i - 1>>]
            /\ call.encoded =
                    [i \in 1..Len(call.input) |->
                        ElementResult(own, call.input[i])]
            /\ call.hash = Keccak256(call.encoded)
            /\ call.hashed = 1
            /\ call.input = << >> => call.hash = Keccak256(<< >>)

C9_Witness ==
    /\ call.pc = "returned"
    /\ Len(call.input) >= 2
    /\ call.input[1] # call.input[2]
    /\ call.hashed = 1

----------------------------------------------------------------------------
(* C10: the packet-hash getter name depends only on the type name, on       *)
(* whether it is flagged as an array ('[]') and on the naming mode:         *)
(* getArrayHash / get<Element>ArrayHash for arrays, getHash / get<Type>Hash *)
(* otherwise.                                                               *)

\* the type strings the generator resolves names for
ResolvedTypes ==
    TypeNamePool \cup ArrayTypes \cup {EIP712Domain, Ghost, <<"uint256">>}

C10_GetterNames ==
    /\ (pc = "call" /\ run = "base") =>
        \A t \in ResolvedTypes, overloaded \in BOOLEAN :
            GetPacketHashGetterName(overloaded, t)
                = OwnGetterName(overloaded, t)
    /\ \A g \in Elements(acc.packetHashGetters) :
        /\ g.kind = "array" =>
                g.name = ExpectedArrayGetterName(RunOverloads,
                                                 ElementTypeOf(g.param))
        /\ g.kind = "struct" =>
                g.name = ExpectedHashGetterName(RunOverloads, g.param)

C10_Witness ==
    /\ pc = "forEach"
    /\ run = "ext"
    /\ ~config.useOverloads
    /\ \E g \in Elements(acc.packetHashGetters) :
            g.kind = "array" /\ g.name = <<"get", "Person", "Array", "Hash">>
    /\ \E g \in Elements(acc.packetHashGetters) :
            g.kind = "struct" /\ g.name = <<"get", "Mail", "Hash">>

----------------------------------------------------------------------------
(* C11: digest and signer getter names follow the naming mode: getDigest /  *)
(* getSigner for every type in Overloaded mode, get<T>Digest / get<T>Signer *)
(* in Qualified mode, where distinct type names get distinct names.         *)

ExpectedDigestGetterName(overloaded, type) ==
    IF overloaded THEN <<"get", "Digest">>
    ELSE <<"get">> \o type \o <<"Digest">>

ExpectedSignerGetterName(overloaded, type) ==
    IF overloaded THEN <<"get", "Signer">>
    ELSE <<"get">> \o type \o <<"Signer">>

C11_DigestSignerNames ==
    /\ (pc = "call" /\ run = "base") =>
        /\ \A t \in ResolvedTypes, overloaded \in BOOLEAN :
            /\ GetDigestGetterName(overloaded, t)
                    = ExpectedDigestGetterName(overloaded, t)
            /\ GetSignerGetterName(overloaded, t)
                    = ExpectedSignerGetterName(overloaded, t)
        /\ \A t1, t2 \in TypeNames(config.types) :
            t1 # t2 =>
                /\ GetDigestGetterName(FALSE, t1)
                        # GetDigestGetterName(FALSE, t2)
                /\ GetSignerGetterName(FALSE, t1)
                        # GetSignerGetterName(FALSE, t2)
    /\ \A g \in Elements(acc.digestGetters) :
        g.name = ExpectedDigestGetterName(RunOverloads, g.param)
    /\ \A g \in Elements(acc.signerGetters) :
        g.name = ExpectedSignerGetterName(RunOverloads, g.param)

C11_Witness ==
    /\ pc = "forEach"
    /\ run = "ext"
    /\ ~config.useOverloads
    /\ \E g \in Elements(acc.digestGetters) :
            g.param = Mail /\ g.name = <<"get", "Mail", "Digest">>
    /\ \E g \in Elements(acc.signerGetters) :
            g.param = LiveMail /\ g.name = <<"get", "Live", "Mail", "Signer">>

----------------------------------------------------------------------------
(* C12: in the deduplicated getter lists a pass returns, no two entries     *)
(* share a resolved name, the entry kept for a name is its first occurrence *)
(* in emission order, and the kept entries stand in the order of their      *)
(* first occurrences.                                                       *)

\* two getters resolve to the same accessor: the same name for the same
\* parameter type (in Overloaded mode the name alone is shared by design)
SameAccessor(g, h) == g.name = h.name /\ g.param = h.param

\* the first occurrence of every accessor, in emission order
RECURSIVE FirstOccurrences(_, _)
FirstOccurrences(list, kept) ==
    IF list = << >> THEN kept
    ELSE IF \E i \in 1..Len(kept) : SameAccessor(kept[i], Head(list))
         THEN FirstOccurrences(Tail(list), kept)
         ELSE FirstOccurrences(Tail(list), Append(kept, Head(list)))

StableDedup(emitted, returned) ==
    /\ \A i, j \in 1..Len(returned) :
            i # j => ~SameAccessor(returned[i], returned[j])
    /\ returned = FirstOccurrences(emitted, << >>)

C12_StableDedup ==
    (pc = "forEach" /\ k > Len(RunTypes)) =>
        /\ StableDedup(acc.packetHashGetters, Returned(acc).packetHashGetters)
        /\ StableDedup(acc.digestGetters, Returned(acc).digestGetters)
        /\ StableDedup(acc.signerGetters, Returned(acc).signerGetters)

----------------------------------------------------------------------------
(* C13: the bundle generate returns is header boilerplate, struct           *)
(* declarations, type-hash constants, domain initialization, packet-hash    *)
(* getters, digest getters, signer getters and closing boilerplate, in that *)
(* order for every configuration; nothing of a later section precedes       *)
(* anything of an earlier one.                                              *)

\* the position of a section in the bundle; the boilerplate that closes the
\* struct library and opens the contract stands between the struct
\* declarations and the type-hash constants
SectionRank(section) ==
    CASE section = "header" -> 1
      [] section = "struct" -> 2
      [] section = "contract" -> 3
      [] section = "typeHash" -> 4
      [] section = "initializeSocket" -> 5
      [] section = "packetHashGetter" -> 6
      [] section = "digestGetter" -> 7
      [] section = "signerGetter" -> 8
      [] section = "close" -> 9
      [] OTHER -> 0

SectionGetters(lines, section) ==
    LET picked == SelectSeq(lines, LAMBDA l : l.section = section)
    IN  [i \in 1..Len(picked) |-> picked[i].getter]

C13_AssemblyOrder ==
    out.returned =>
        /\ \A i \in 1..Len(out.lines) : SectionRank(out.lines[i].section) > 0
        /\ \A i, j \in 1..Len(out.lines) :
            i < j => SectionRank(out.lines[i].section)
                        <= SectionRank(out.lines[j].section)
        /\ \A section \in {"header", "contract", "initializeSocket", "close"} :
            Len(SelectSeq(out.lines, LAMBDA l : l.section = section)) = 1
        /\ out.lines[1].section = "header"
        /\ out.lines[Len(out.lines)].section = "close"
        /\ Len(SectionNames(out.lines, "struct")) = Len(AllTypes)
        /\ Len(SectionNames(out.lines, "typeHash")) = Len(AllTypes)
        /\ SectionGetters(out.lines, "packetHashGetter")
                = baseResult.packetHashGetters \o extResult.packetHashGetters
        /\ SectionGetters(out.lines, "digestGetter") = extResult.digestGetters
        /\ SectionGetters(out.lines, "signerGetter") = extResult.signerGetters

C13_Witness ==
    /\ out.returned
    /\ SectionGetters(out.lines, "digestGetter") # << >>
    /\ SectionGetters(out.lines, "signerGetter") # << >>
    /\ \E l \in Elements(out.lines) :
            l.section = "packetHashGetter" /\ l.getter.kind = "array"

----------------------------------------------------------------------------
(* C14: a digest getter is emitted for a type only if the type map of the   *)
(* pass also declares the type named 'Live' + the type's name.              *)

Designated(types, typeName) == (<<"Live">> \o typeName) \in TypeNames(types)

OnlyDesignated(types, getters) ==
    \A g \in Elements(getters) :
        g.kind = "digest" /\ g.param \in TypeNames(types)
            /\ Designated(types, g.param)

----------------------------------------------------------------------------
(* C15: a signer getter is emitted for a type only if the type declares     *)
(* exactly one signature field and exactly one other (payload) field, and   *)
(* the payload field's type is one the pass emits a digest getter for.      *)

SignatureFields(fields) ==
    {i \in 1..Len(fields) : fields[i].name = "signature"}

PayloadFields(fields) ==
    {i \in 1..Len(fields) : fields[i].name # "signature"}

SignerEligible(types, digestGetters, typeName) ==
    LET fields == FieldsOf(types, typeName)
    IN  /\ Cardinality(SignatureFields(fields)) = 1
        /\ Cardinality(PayloadFields(fields)) = 1
        /\ \A i \in PayloadFields(fields) :
                \E d \in Elements(digestGetters) : d.param = fields[i].type

C15_SignerEligibility ==
    extResult.returned =>
        \A g \in Elements(extResult.signerGetters) :
            SignerEligible(config.types, extResult.digestGetters, g.param)

----------------------------------------------------------------------------
(* C16: the body of an emitted signer getter of envelope type E calls, on   *)
(* E's payload field, the digest getter named after the type the payload    *)
(* field references, and that digest getter is one the same pass emits.     *)
(* Stated for the envelopes C15 admits (one signature field, one payload    *)
(* field of a type with a digest getter), and with names compared up to     *)
(* letter case, which the embedding of a name in an accessor may change.    *)

PayloadField(fields) == fields[CHOOSE i \in PayloadFields(fields) : TRUE]

SameUpToCase(a, b) ==
    [i \in 1..Len(a) |-> ToUpperCase(a[i])]
        = [i \in 1..Len(b) |-> ToUpperCase(b[i])]

InvokesPayloadDigest(overloaded, types, digestGetters, g) ==
    LET payload == PayloadField(FieldsOf(types, g.param))
    IN  /\ g.payload = payload.name
        /\ SameUpToCase(g.callee,
                        ExpectedDigestGetterName(overloaded, payload.type))
        /\ \E d \in Elements(digestGetters) :
                d.param = payload.type /\ SameUpToCase(d.name, g.callee)

C16_SignerBody ==
    extResult.returned =>
        \A g \in Elements(extResult.signerGetters) :
            SignerEligible(config.types, extResult.digestGetters, g.param)
                => InvokesPayloadDigest(config.useOverloads, config.types,
                                        extResult.digestGetters, g)

----------------------------------------------------------------------------
(* C17 (scenario A): for the schema Person {name, wallet}, Mail {from, to,  *)
(* contents} the pass yields a struct and a type-hash constant for both     *)
(* types, exactly one Person getter, exactly one Mail getter whose body     *)
(* calls the Person getter exactly twice (for from, then to), no array      *)
(* getter and no digest or signer getter.                                   *)

ScenarioA ==
    << TypeDef(Person, << Field("name", <<"string">>),
                          Field("wallet", <<"address">>) >>),
       TypeDef(Mail, << Field("from", Person), Field("to", Person),
                        Field("contents", <<"string">>) >>) >>

GettersOf(getters, kind, param) ==
    SelectSeq(getters, LAMBDA g : g.kind = kind /\ g.param = param)

CallsIn(g, callee) ==
    SelectSeq(g.args, LAMBDA a : a.op = "call" /\ a.callee = callee)

C17_ScenarioA ==
    /\ (config.types = ScenarioA /\ extResult.returned) =>
        LET getters == extResult.packetHashGetters
            person == ExpectedHashGetterName(config.useOverloads, Person)
        IN  /\ [i \in 1..Len(extResult.setup) |->
                    extResult.setup[i].struct.name] = <<Person, Mail>>
            /\ [i \in 1..Len(extResult.setup) |->
                    extResult.setup[i].typeHash.of] = <<Person, Mail>>
            /\ Len(GettersOf(getters, "struct", Person)) = 1
            /\ Len(GettersOf(getters, "struct", Mail)) = 1
            /\ Len(getters) = 2
            /\ \A g \in Elements(getters) : g.kind # "array"
            /\ LET mail == GettersOf(getters, "struct", Mail)[1]
               IN  /\ [i \in 1..Len(CallsIn(mail, person)) |->
                            CallsIn(mail, person)[i].field] = <<"from", "to">>
                   /\ \A i \in 1..Len(mail.args) :
                        mail.args[i].op = "call" => i \in {1, 2}
            /\ extResult.digestGetters = << >>
            /\ extResult.signerGetters = << >>
    /\ (config.types = ScenarioA /\ out.returned) =>
        /\ SectionGetters(out.lines, "digestGetter") = << >>
        /\ SectionGetters(out.lines, "signerGetter") = << >>
        /\ Len(GettersOf(SectionGetters(out.lines, "packetHashGetter"),
                         "struct", Person)) = 1
        /\ Len(GettersOf(SectionGetters(out.lines, "packetHashGetter"),
                         "struct", Mail)) = 1

C17_Witness ==
    /\ config.types = ScenarioA
    /\ out.returned
    /\ Len(extResult.packetHashGetters) = 2

----------------------------------------------------------------------------
(* C18 (scenario B): with the field signers: Person[] added to Mail, the    *)
(* packet-hash getter list is the one of scenario A plus exactly one entry, *)
(* the Person-array getter; Mail's body calls it exactly once, on the       *)
(* field; the Person and Mail getters stay single.                          *)

ScenarioB ==
    << ScenarioA[1],
       TypeDef(Mail, ScenarioA[2].fields
                        \o << Field("signers", ArrayOf(Person)) >>) >>

C18_ScenarioB ==
    (config.types = ScenarioB /\ extResult.returned) =>
        LET getters == extResult.packetHashGetters
            array == ExpectedArrayGetterName(config.useOverloads, Person)
            person == ExpectedHashGetterName(config.useOverloads, Person)
        IN  /\ Len(getters) = 3
            /\ Len(GettersOf(getters, "struct", Person)) = 1
            /\ Len(GettersOf(getters, "struct", Mail)) = 1
            /\ Len(GettersOf(getters, "array", ArrayOf(Person))) = 1
            /\ GettersOf(getters, "array", ArrayOf(Person))[1].name = array
            /\ GettersOf(getters, "array", ArrayOf(Person))[1].callee = person
            /\ LET mail == GettersOf(getters, "struct", Mail)[1]
               IN  /\ Len(mail.args) = 4
                   /\ [i \in 1..Len(CallsIn(mail, array)) |->
                            CallsIn(mail, array)[i].field] = <<"signers">>
                   /\ mail.args[4] = Encoded("call", array, "signers")
                   /\ [i \in 1..3 |-> mail.args[i]]
                        = EncodedFields(config.useOverloads,
                                        ScenarioA[2].fields)

C18_Witness ==
    /\ config.types = ScenarioB
    /\ out.returned
    /\ \E l \in Elements(out.lines) :
            l.section = "packetHashGetter" /\ l.getter.kind = "array"

----------------------------------------------------------------------------
(* C19: for every type of the type map, in declaration order, the result    *)
(* holds exactly one struct declaration whose members are the type's fields *)
(* verbatim (names, types with their array marker, order) paired with one   *)
(* type-hash constant of the same type: the i-th struct and the i-th        *)
(* constant belong to the i-th declared type.                               *)

DeclaresInOrder(types, n, setup) ==
    /\ Len(setup) = n
    /\ \A i \in 1..n :
        /\ setup[i].struct.name = types[i].name
        /\ setup[i].struct.members = types[i].fields
        /\ setup[i].typeHash.of = types[i].name

C19_PerTypeDeclarations ==
    /\ pc = "forEach" => DeclaresInOrder(RunTypes, k - 1, acc.results)
    /\ baseResult.returned =>
        DeclaresInOrder(baseline.types, Len(baseline.types),
                        baseResult.setup)
    /\ extResult.returned =>
        DeclaresInOrder(config.types, Len(config.types), extResult.setup)
    /\ out.returned =>
        LET structs == SelectSeq(out.lines, LAMBDA l : l.section = "struct")
        IN  /\ Len(structs) = Len(AllTypes)
            /\ \A i \in 1..Len(structs) :
                /\ structs[i].name = AllTypes[i].name
                /\ structs[i].members = AllTypes[i].fields

C19_Witness ==
    /\ extResult.returned
    /\ Len(extResult.setup) >= 2
    /\ \E i \in 1..Len(extResult.setup) :
        \E j \in 1..Len(extResult.setup[i].struct.members) :
            extResult.setup[i].struct.members[j].type = ArrayOf(Person)

----------------------------------------------------------------------------
(* C20: in a bundle generate returns, two distinct type names never have    *)
(* the same type-hash constant name; when two types of the merged schema    *)
(* would resolve to the same constant name, or to the same accessor name in *)
(* Qualified mode, generation fails (with whatever error).  Overloaded mode *)
(* shares the accessor name among all types by design and is not counted    *)
(* as a collision.                                                          *)

WouldCollide ==
    \E i, j \in 1..Len(AllTypes) :
        /\ AllTypes[i].name # AllTypes[j].name
        /\ \/ TypeHashName(AllTypes[i].name) = TypeHashName(AllTypes[j].name)
           \/ /\ ~config.useOverloads
              /\ ExpectedHashGetterName(FALSE, AllTypes[i].name)
                    = ExpectedHashGetterName(FALSE, AllTypes[j].name)

C20_NamesInjective ==
    /\ out.returned =>
        LET constants == SectionNames(out.lines, "typeHash")
        IN  \A i, j \in 1..Len(AllTypes) :
                AllTypes[i].name # AllTypes[j].name
                    => constants[i] # constants[j]
    /\ (WouldCollide /\ Terminated) => pc = "failed"

----------------------------------------------------------------------------
(* C21: the documentation list generate returns holds exactly one page per  *)
(* declared type and one page per emitted packet-hash, digest and signer    *)
(* getter: every type and every getter has a page, and no two pages share a *)
(* path.                                                                    *)

EmittedGetters ==
    SectionGetters(out.lines, "packetHashGetter")
        \o SectionGetters(out.lines, "digestGetter")
        \o SectionGetters(out.lines, "signerGetter")

C21_DocumentationCoverage ==
    out.returned =>
        /\ \A i \in 1..Len(AllTypes) :
            \E d \in Elements(out.documentation) :
                d.path = <<"/base-types/">> \o AllTypes[i].name \o <<".md">>
        /\ \A g \in Elements(EmittedGetters) :
            \E d \in Elements(out.documentation) : d.path = g.path
        /\ Len(out.documentation) = Len(AllTypes) + Len(EmittedGetters)
        /\ \A i, j \in 1..Len(out.documentation) :
            i # j => out.documentation[i].path # out.documentation[j].path

----------------------------------------------------------------------------
(* C22: the domain separator of the generated contract is set exactly once: *)
(* once initialized, no call (a second call of the initialization routine   *)
(* included) changes it, and two digests of the same input computed after   *)
(* initialization are equal.                                                *)

C22_DomainSeparatorSetOnce ==
    /\ [][socket.initialized => socket'.domainHash = socket.domainHash]_vars
    /\ [](\A d1, d2 \in socket.digests :
            (d1.initialized /\ d2.initialized /\ d1.input = d2.input)
                => d1.digest = d2.digest)

----------------------------------------------------------------------------
(* C23: two generation passes whose steps interleave in any order share no  *)
(* mutable state: the accumulators of a pass never hold an artifact the     *)
(* other pass created, and each pass accumulates and returns exactly what   *)
(* it does when it runs alone (objects compared by content, since the       *)
(* identity of a new object depends on what was allocated before it).       *)

\* the accumulators of a pass that runs alone, after its first n types
RECURSIVE AloneAcc(_, _, _)
AloneAcc(cfg, n, ref) ==
    IF n = 0 THEN EmptyAcc
    ELSE LET fields == [i \in 1..(n - 1) |-> cfg.types[i].fields]
             used == [i \in 1..(n - 1) |-> CreatedBy(fields[i]) + 3]
             RECURSIVE Sum(_)
             Sum(i) == IF i = 0 THEN 0 ELSE used[i] + Sum(i - 1)
         IN  AfterType(cfg.useOverloads, cfg.types, cfg.types[n],
                       AloneAcc(cfg, n - 1, ref), ref + Sum(n - 1))

WithoutRefs(list) == [i \in 1..Len(list) |-> [list[i] EXCEPT !.ref = 0]]

Content(a) ==
    [typeHashGetters |-> WithoutRefs(a.typeHashGetters),
     packetHashGetters |-> WithoutRefs(a.packetHashGetters),
     digestGetters |-> WithoutRefs(a.digestGetters),
     signerGetters |-> WithoutRefs(a.signerGetters)]

RefsIn(a) ==
    {x.ref : x \in Elements(a.typeHashGetters) \cup
                   Elements(a.packetHashGetters) \cup
                   Elements(a.digestGetters) \cup Elements(a.signerGetters)}

C23_RunsIndependent ==
    \A r \in DOMAIN runs :
        LET other == runs[3 - r]
            alone == AloneAcc(runs[r].config, runs[r].k - 1, 1)
        IN  /\ RefsIn(runs[r].acc) \subseteq runs[r].created
            /\ RefsIn(runs[r].result) \subseteq runs[r].created
            /\ runs[r].created \cap other.created = {}
            /\ runs[r].pc = "forEach" =>
                /\ Content(runs[r].acc) = Content(alone)
                /\ runs[r].acc.results = alone.results
            /\ runs[r].pc = "returned" =>
                /\ Content(runs[r].result) = Content(Returned(alone))
                /\ runs[r].result.setup = alone.results

\* both passes returned, and each created objects before and after objects
\* of the other
C23_Witness ==
    /\ DOMAIN runs = {1, 2}
    /\ runs[1].pc = "returned" /\ runs[2].pc = "returned"
    /\ runs[1].config # runs[2].config
    /\ \E a, b \in runs[1].created, c, d \in runs[2].created :
            a < c /\ c < b /\ b < d

----------------------------------------------------------------------------
(* C24: generation terminates, and the work of a pass (the getter entries   *)
(* accumulated before deduplication) grows no faster than linearly with the *)
(* types processed: every getter object created is accumulated a bounded    *)
(* number of times (here: at most twice, once by getPacketHashGetters and   *)
(* once by the caller's push), however many types came before it.           *)

CreatedGetters(getters) == {g.ref : g \in Elements(getters)}

C24_ProportionalWork ==
    /\ pc = "forEach" =>
        Len(acc.packetHashGetters)
            <= 2 * Cardinality(CreatedGetters(acc.packetHashGetters))
    /\ pc \in {"call", "forEach", "assemble", "done", "failed"}
    /\ k <= MaxTypes + 1

----------------------------------------------------------------------------
(* C25: every accessor a generated getter calls is itself emitted by the    *)
(* same generation (baseline and caller artifacts together).  Stated for    *)
(* the case the claim singles out: the array getter emitted for T[] calls   *)
(* an element getter for T that is emitted, also when T is a primitive.     *)
(* Names are compared up to letter case.                                    *)

C25_CallGraphClosed ==
    out.returned =>
        \A g \in Elements(EmittedGetters) :
            g.kind = "array" =>
                \E h \in Elements(EmittedGetters) :
                    SameUpToCase(h.name, g.callee)

----------------------------------------------------------------------------
(* C26: the accumulator is handed to getPacketHashGetters and the returned  *)
(* list is appended to it again; after the final deduplication every getter *)
(* entry created during the pass appears exactly once in the returned       *)
(* packetHashGetters, in order of creation.                                 *)

\* the getter entries a pass creates for its first n types, in order
RECURSIVE CreatedEntries(_, _, _)
CreatedEntries(overloaded, types, n) ==
    IF n = 0 THEN << >>
    ELSE CreatedEntries(overloaded, types, n - 1)
            \o GetPacketHashGetters(overloaded, types[n].name,
                                    types[n].fields, << >>, 0)

C26_ReSpreadHarmless ==
    pc = "forEach" =>
        LET returned == Returned(acc).packetHashGetters
        IN  /\ WithoutRefs(returned)
                = WithoutRefs(CreatedEntries(RunOverloads, RunTypes, k - 1))
            /\ \A i, j \in 1..Len(returned) :
                    i < j => returned[i].ref < returned[j].ref
            /\ CreatedGetters(returned) = CreatedGetters(acc.packetHashGetters)

C26_Witness ==
    /\ pc = "forEach"
    /\ run = "ext"
    /\ k > Len(RunTypes)
    /\ Len(RunTypes) = 3
    /\ Len(acc.packetHashGetters) > 3 * Len(Returned(acc).packetHashGetters)
    /\ \E g \in Elements(acc.packetHashGetters) : g.kind = "array"

----------------------------------------------------------------------------
(* C27: for a type with a field named 'signature', the payload of the       *)
(* signer getter is the first declared field whose name is not 'signature', *)
(* wherever the signature field stands and however many other fields there  *)
(* are, and the digest accessor the body calls is named after that field's  *)
(* name, not after its type.                                                *)

FirstPayloadField(fields) ==
    fields[CHOOSE i \in PayloadFields(fields) :
                \A j \in PayloadFields(fields) : i <= j]

PayloadByFieldName(overloaded, types, g) ==
    LET fields == FieldsOf(types, g.param)
    IN  PayloadFields(fields) # {} =>
            /\ g.payload = FirstPayloadField(fields).name
            /\ g.callee = ExpectedDigestGetterName(
                            overloaded, <<FirstPayloadField(fields).name>>)

C27_PayloadSelection ==
    /\ \A g \in Elements(acc.signerGetters) :
            HasSignature(FieldsOf(RunTypes, g.param))
                /\ PayloadByFieldName(RunOverloads, RunTypes, g)
    /\ \A g \in Elements(extResult.signerGetters) :
            PayloadByFieldName(config.useOverloads, config.types, g)

\* a signer getter of a type that declares the signature first, and the
\* name of the payload field differs from the name of its type
C27_Witness ==
    /\ extResult.returned
    /\ ~config.useOverloads
    /\ \E g \in Elements(extResult.signerGetters) :
        /\ FieldsOf(config.types, g.param)[1].name = "signature"
        /\ g.payload = "mail"
        /\ g.callee = <<"get", "mail", "Digest">>
        /\ g.callee # ExpectedDigestGetterName(FALSE, Mail)

----------------------------------------------------------------------------
(* C28: of the baseline pass generate keeps only the struct / type-hash     *)
(* pairs, the type pages and the packet-hash getters; every digest and      *)
(* signer getter of the bundle and of the documentation comes from the pass *)
(* over the caller's configuration, so a baseline type has a digest or      *)
(* signer getter only if the caller's own type map declares it.             *)

PagesUnder(documentation, folder) ==
    SelectSeq(documentation, LAMBDA d : d.path[1] = folder)

C28_BaselineContribution ==
    out.returned =>
        /\ SectionNames(out.lines, "struct")
            = [i \in 1..Len(AllTypes) |-> AllTypes[i].name]
        /\ SectionGetters(out.lines, "packetHashGetter")
            = baseResult.packetHashGetters \o extResult.packetHashGetters
        /\ PagesUnder(out.documentation, "/base-types/")
            = Docs(baseResult.typeHashGetters \o extResult.typeHashGetters)
        /\ SectionGetters(out.lines, "digestGetter") = extResult.digestGetters
        /\ SectionGetters(out.lines, "signerGetter") = extResult.signerGetters
        /\ PagesUnder(out.documentation, "/digest-getters/")
            = Docs(extResult.digestGetters)
        /\ PagesUnder(out.documentation, "/signer-getters/")
            = Docs(extResult.signerGetters)
        /\ \A g \in Elements(EmittedGetters) :
            g.kind \in {"digest", "signer"} =>
                /\ g.param \in TypeNames(config.types)
                /\ g.ref \notin RefsIn(baseResult)

\* the baseline pass returned a digest and a signer getter, and so did the
\* caller's pass
C28_Witness ==
    /\ out.returned
    /\ baseResult.digestGetters # << >>
    /\ baseResult.signerGetters # << >>
    /\ extResult.digestGetters # << >>
    /\ extResult.signerGetters # << >>

----------------------------------------------------------------------------
(* C29: in the bundle and the documentation, within the struct              *)
(* declarations, the type-hash constants, the type pages and the            *)
(* packet-hash getters, every artifact of the baseline type map precedes    *)
(* every artifact of the caller's types, and each group keeps the           *)
(* declaration order of its type map.                                       *)

NamesOf(types) == [i \in 1..Len(types) |-> types[i].name]

\* the types whose struct getters a getter list holds, in list order
StructGetterTypes(getters) ==
    LET picked == SelectSeq(getters, LAMBDA g : g.kind = "struct")
    IN  [i \in 1..Len(picked) |-> picked[i].param]

TypePagePaths(types) ==
    [i \in 1..Len(types) |->
        [path |-> <<"/base-types/">> \o types[i].name \o <<".md">>]]

C29_BaselineFirst ==
    out.returned =>
        LET getters == SectionGetters(out.lines, "packetHashGetter")
            nBase == Len(baseResult.packetHashGetters)
        IN  /\ SectionNames(out.lines, "struct")
                = NamesOf(baseline.types) \o NamesOf(config.types)
            /\ SectionNames(out.lines, "typeHash")
                = [i \in 1..Len(baseline.types) |->
                        TypeHashName(baseline.types[i].name)]
                  \o [i \in 1..Len(config.types) |->
                        TypeHashName(config.types[i].name)]
            /\ PagesUnder(out.documentation, "/base-types/")
                = TypePagePaths(baseline.types) \o TypePagePaths(config.types)
            /\ StructGetterTypes(getters)
                = NamesOf(baseline.types) \o NamesOf(config.types)
            /\ \A i \in 1..Len(getters) :
                IF i <= nBase
                THEN getters[i].ref \in RefsIn(baseResult)
                ELSE getters[i].ref \in RefsIn(extResult)
            /\ PagesUnder(out.documentation, "/hash-getters/")
                = Docs(getters)

C29_Witness ==
    /\ out.returned
    /\ Len(baseline.types) = 2
    /\ Len(config.types) = 3
    /\ Len(baseResult.packetHashGetters) = 2
    /\ Len(extResult.packetHashGetters) > 3

----------------------------------------------------------------------------
(* C30: a type string is taken for an array exactly when it contains '[]',  *)
(* and its element type is the string without its last two characters;      *)
(* consequently every array-valued field type (T[], T[n], T[][]) is         *)
(* recognised as an array and resolves to an element type that is a         *)
(* primitive or a key of the type map.                                      *)

IsPrimitiveOrKey(types, t) ==
    (Len(t) = 1 /\ t[1] \in PrimitiveWords) \/ t \in TypeNames(types)

C30_ArrayDetection ==
    extResult.returned =>
        \A f \in FieldsIn(config.types) :
            /\ IsArrayField(f) <=> IsArrayType(f.type)
            /\ IsArrayType(f.type) =>
                IsPrimitiveOrKey(config.types, DropLastTwo(f.type))

====
